---------------------------- MODULE Spec2Model ----------------------------
(***************************************************************************)
(* A model of pypi2pkgbuild.py: artifact selection, metadata extraction    *)
(* by trial installation, memoized index queries and the recursive         *)
(* dependency walk create_package -> write_deps_to -> create_package.      *)
(***************************************************************************)
EXTENDS Integers, Sequences, FiniteSets, TLC

VARIABLES
    \* ---- artifact selection (Package._filter_and_sort_urls) ----
    sel_pc,         \* "idle" | "input" | "done"
    sel_urls,       \* the index's artifact list (the "urls" of the JSON answer)
    sel_pkgtypes,   \* options.pkgtypes, the preference order
    sel_result,     \* what _filter_and_sort_urls returned or raised
    \* ---- metadata extraction (_get_metadata) ----
    md_pc,          \* "idle" | "off" | "first" | "retry" | "show"
    md_key,         \* the arguments (name, makedepends_cython) of the call
    md_calls,       \* number of calls of _get_metadata made so far
    md_installs,    \* runs of install_cmd in the current call
    md_installed,   \* the package is installed in the venv
    md_more,        \* lines of the more_requires temporary file
    md_base,        \* "requires" as reported by show_cmd
    md_ret,         \* what the last call returned or raised
    md_cache,       \* the lru_cache of _get_metadata
    md_hist,        \* per cached key: how its value was computed
    \* ---- the run of main ----
    w_pc,           \* "off" | "run" | "end"
    opts,           \* the command line: skipdeps, force, pre, update
    roots,          \* the names main has still to call create_package for
    walk,           \* number of top-level calls of create_package so far
    stack,          \* the calls of create_package in progress, outermost first
    index,          \* the index's answer per name
    probe,          \* the local system's answer per name
    trial,          \* what the trial installation of a name does
    info_cache,     \* the lru_cache of _get_pypi_info: the keys (name, pre)
    cp_cache,       \* the lru_cache of create_package: the calls returned
    build_cache,    \* _BasePackage.build_cache, in insertion order
    written,        \* the build directories written: (base path, pkgname)
    outcome,        \* how the last top-level call ended
    errors,         \* the PackagingErrors main has caught
    abort,          \* the state in which the last exception was raised
    failed,         \* the names whose resolution raised PackagingError
    http,           \* per (name, pre): requests sent to the index
    probes,         \* per (name, pre): runs of the local-state queries
    instances,      \* per (name, pre, is_subpackage): PackageRef objects made
    resolved,       \* per pkgname: Package objects completed
    built,          \* per pkgname: write_to calls completed
    dep_calls,      \* the names write_deps_to called create_package for
    entered,        \* per name: bodies of create_package started
    \* ---- single calls of the module's functions ----
    fn_pc,          \* "idle" | "call" | "done"
    fn_args,        \* the function called and its arguments
    fn_ret          \* what the call returned or raised

selVars == <<sel_pc, sel_urls, sel_pkgtypes, sel_result>>

mdVars == <<md_pc, md_key, md_calls, md_installs, md_installed, md_more,
            md_base, md_ret, md_cache, md_hist>>

mdRest == <<md_pc, md_key, md_calls, md_installs, md_installed, md_more,
            md_base, md_ret, md_hist>>

refVars == <<index, probe, info_cache, http, probes, instances>>

walkVars == <<w_pc, opts, roots, walk, stack, trial, cp_cache, build_cache,
              written, outcome, errors, abort, failed, resolved, built,
              dep_calls, entered, refVars>>

fnVars == <<fn_pc, fn_args, fn_ret>>

vars == <<selVars, mdVars, walkVars, fnVars>>

---------------------------------------------------------------------------
(* Generic helpers.                                                        *)

Range(s) == {s[i] : i \in 1..Len(s)}

\* list.index(x) / tuple.index(x): the 0-based position of the first
\* occurrence; -1 stands for the ValueError raised when x is absent.
IndexOf(seq, x) ==
    IF \E i \in 1..Len(seq) : seq[i] = x
    THEN (CHOOSE i \in 1..Len(seq) :
              seq[i] = x /\ \A j \in 1..(i - 1) : seq[j] # x) - 1
    ELSE -1

\* All sequences over S of length at most n.
SeqsUpTo(S, n) == UNION {[1..k -> S] : k \in 0..n}

---------------------------------------------------------------------------
(* Module constants of the program.                                        *)

\* PY_TAGS for a CPython 3.6 interpreter.
PY_TAGS == {"py2.py3", "py3", "cp36"}

PLATFORM_TAGS ==
    [any |-> "any", manylinux1_i686 |-> "i686", manylinux1_x86_64 |-> "x86_64"]

\* The bucket table inlined in _filter_and_sort_urls.
WheelBucket ==
    [any |-> "anywheel", manylinux1_i686 |-> "manylinuxwheel",
     manylinux1_x86_64 |-> "manylinuxwheel"]

---------------------------------------------------------------------------
(* WheelInfo.parse.  A file name is modelled by the sequence of the        *)
(* "-"-separated parts of its stem.                                        *)

WheelNameValid(parts) == Len(parts) \in {5, 6}

WheelInfoParse(parts) ==
    IF Len(parts) = 5
    THEN [name |-> parts[1], version |-> parts[2], build |-> "",
          python |-> parts[3], abi |-> parts[4], platform |-> parts[5]]
    ELSE [name |-> parts[1], version |-> parts[2], build |-> parts[3],
          python |-> parts[4], abi |-> parts[5], platform |-> parts[6]]

---------------------------------------------------------------------------
(* Package._filter_and_sort_urls.                                          *)

\* The (url, order) decision of one loop iteration: the sort key of a url
\* that is appended to `urls`, -1 for a url that is skipped.
WheelMismatchKept(ref, url, pkgtypes) ==
    LET wheel_info == WheelInfoParse(url.path)
    IN  IF wheel_info.python \notin PY_TAGS THEN -1
        ELSE IF wheel_info.platform \notin DOMAIN WheelBucket THEN -1
        ELSE IndexOf(pkgtypes, WheelBucket[wheel_info.platform])

WheelOrder(ref, url, pkgtypes) ==
    LET wheel_info == WheelInfoParse(url.path)
    IN  IF wheel_info.python \notin PY_TAGS THEN -1
        ELSE IF wheel_info.platform \notin DOMAIN WheelBucket THEN -1  \* KeyError
        ELSE IF IndexOf(pkgtypes, WheelBucket[wheel_info.platform]) = -1
             THEN -1                                                   \* ValueError
        ELSE IF wheel_info.name # ref.wheel_name
                \/ wheel_info.version # ref.version
             THEN -1                      \* LOGGER.warning, not appended
        ELSE IndexOf(pkgtypes, WheelBucket[wheel_info.platform])

UrlOrder(ref, url, pkgtypes) ==
    IF url.packagetype = "bdist_wheel" THEN WheelOrder(ref, url, pkgtypes)
    ELSE IF url.packagetype = "sdist" THEN IndexOf(pkgtypes, "sdist")
    ELSE -1

\* The list `urls` of (url, order) pairs after the loop over the first n
\* entries of unfiltered_urls.
RECURSIVE CollectUrls(_, _, _, _)
CollectUrls(ref, unfiltered_urls, pkgtypes, n) ==
    IF n = 0 THEN <<>>
    ELSE LET url   == unfiltered_urls[n]
             order == UrlOrder(ref, url, pkgtypes)
             rest  == CollectUrls(ref, unfiltered_urls, pkgtypes, n - 1)
         IN  IF order = -1 THEN rest
             ELSE Append(rest, [url |-> url, order |-> order])

\* sorted(urls, key=lambda kv: kv[1]): a stable insertion sort.
InsertUnstable(sorted, kv) ==
    LET before == SelectSeq(sorted, LAMBDA e : e.order < kv.order)
        after  == SelectSeq(sorted, LAMBDA e : e.order >= kv.order)
    IN  before \o <<kv>> \o after

InsertByOrder(sorted, kv) ==
    LET before == SelectSeq(sorted, LAMBDA e : e.order <= kv.order)
        after  == SelectSeq(sorted, LAMBDA e : e.order > kv.order)
    IN  before \o <<kv>> \o after

RECURSIVE SortedByOrder(_, _)
SortedByOrder(pairs, n) ==
    IF n = 0 THEN <<>>
    ELSE InsertByOrder(SortedByOrder(pairs, n - 1), pairs[n])

\* WheelInfo.parse raises ValueError for a wheel whose stem has neither 5
\* nor 6 parts; the call sits outside the try block, so it escapes.
FilterRaises(unfiltered_urls) ==
    \E i \in 1..Len(unfiltered_urls) :
        /\ unfiltered_urls[i].packagetype = "bdist_wheel"
        /\ ~WheelNameValid(unfiltered_urls[i].path)

FilterAndSortUrls(ref, unfiltered_urls, pkgtypes) ==
    IF FilterRaises(unfiltered_urls)
    THEN [exc |-> "ValueError", urls |-> <<>>]
    ELSE LET pairs  == CollectUrls(ref, unfiltered_urls, pkgtypes,
                                   Len(unfiltered_urls))
             sorted == SortedByOrder(pairs, Len(pairs))
         IN  [exc |-> "", urls |-> [i \in 1..Len(sorted) |-> sorted[i].url]]

---------------------------------------------------------------------------
(* ArchVersion: the namedtuple (epoch, pkgver, pkgrel), its __str__ and     *)
(* parse.  Strings are sequences of characters.                            *)

\* The value of a regular-expression group that took no part in the match.
None == <<"None">>

\* __str__: "epoch:pkgver-pkgrel" if epoch else "pkgver-pkgrel".
ArchVersionStr(v) ==
    IF v.epoch # <<>>
    THEN v.epoch \o <<":">> \o v.pkgver \o <<"-">> \o v.pkgrel
    ELSE v.pkgver \o <<"-">> \o v.pkgrel

\* `epoch` as it stands, without the `or ""`.
EpochKept(epoch) == epoch

\* epoch or "".
EpochOrEmpty(epoch) == IF epoch = None \/ epoch = <<>> THEN <<>> ELSE epoch

\* parse: re.fullmatch(r"(?:(.*):)?(.*)-(.*)", s).  Both (.*) before a
\* separator are greedy: pkgrel starts after the last "-", and the epoch
\* group, if a ":" stands before that "-", ends at the last such ":".
\* Without any "-" there is no match and .groups() of None raises.
ArchVersionParse(s) ==
    LET dashes == {i \in 1..Len(s) : s[i] = "-"}
        Max(S) == CHOOSE i \in S : \A j \in S : j <= i
        d == Max(dashes)
        colons == {i \in 1..(d - 1) : s[i] = ":"}
        c == IF colons = {} THEN 0 ELSE Max(colons)
        epoch == IF colons = {} THEN None ELSE SubSeq(s, 1, c - 1)
    IN  IF dashes = {}
        THEN [exc |-> "AttributeError", version |-> <<>>]
        ELSE [exc |-> "",
              version |-> [epoch |-> EpochOrEmpty(epoch),
                           pkgver |-> SubSeq(s, c + 1, d - 1),
                           pkgrel |-> SubSeq(s, d + 1, Len(s))]]

---------------------------------------------------------------------------
(* Package._find_arch_makedepends and the source declarations written by   *)
(* Package.__init__, for the selected artifacts `urls` (not empty).        *)

\* sorted() of architecture names.
ArchOrder == <<"any", "i686", "x86_64">>

IsWheel(url) == url.packagetype = "bdist_wheel"

\* archs: the sorted set of PLATFORM_TAGS[...platform] over the wheels of
\* self._urls.
Archs(urls) ==
    LET tags == {PLATFORM_TAGS[WheelInfoParse(urls[i].path).platform] :
                     i \in {j \in 1..Len(urls) : IsWheel(urls[j])}}
    IN  SelectSeq(ArchOrder, LAMBDA a : a \in tags)

\* self._arch.  `tree` tells which of *.i, *.pyx and *.c the unpacked
\* source tree holds; guess_makedepends is the option's value.
FindArch(urls, tree, guess_makedepends) ==
    IF IsWheel(urls[1]) THEN Archs(urls)
    ELSE IF \/ "swig" \in guess_makedepends /\ tree.i
            \/ "cython" \in guess_makedepends /\ tree.pyx
            \/ "any" \notin Range(Archs(urls)) /\ tree.c
    THEN <<"i686", "x86_64">>
    ELSE <<"any">>

\* One source declaration: source=(...) when arch is "", source_<arch>
\* otherwise.
SourceUnqualified(url) == [arch |-> "", url |-> url.url]

WheelSource(url) ==
    LET platform == WheelInfoParse(url.path).platform
    IN  [arch |-> IF platform = "any" THEN "" ELSE PLATFORM_TAGS[platform],
         url |-> url.url]

Sources(urls) ==
    IF IsWheel(urls[1])
    THEN LET wheels == SelectSeq(urls, IsWheel)
         IN  [i \in 1..Len(wheels) |-> WheelSource(wheels[i])]
    ELSE <<[arch |-> "", url |-> urls[1].url]>>

\* Package.__init__ as far as the architecture and the sources go.
PackageInit(ref, unfiltered_urls, pkgtypes, tree, guess_makedepends) ==
    LET sel == FilterAndSortUrls(ref, unfiltered_urls, pkgtypes)
        Ret(exc, arch, sources) ==
            [exc |-> exc, urls |-> sel.urls, arch |-> arch,
             sources |-> sources]
    IN  IF sel.exc # "" THEN Ret(sel.exc, <<>>, <<>>)
        ELSE IF sel.urls = <<>> THEN Ret("PackagingError", <<>>, <<>>)
        ELSE Ret("", FindArch(sel.urls, tree, guess_makedepends),
                 Sources(sel.urls))

---------------------------------------------------------------------------
(* _get_metadata: the trial installation script and its lru_cache.         *)

NoMetadata == [exc |-> "", requires |-> <<>>]

\* `echo numpy >>{more_requires.name}`
EchoNumpyNever(more_requires) == more_requires

EchoNumpy(more_requires) == Append(more_requires, "numpy")

\* more_requires.read().splitlines(), read after the script has ended.
MoreRequires(more_requires) == more_requires

\* show_cmd looks up whatever got installed: with nothing installed its
\* python -c "next(...)" exits non-zero, and so does the script.
ShowSucceeds(installed, show_ok) == installed /\ show_ok

\* The value built from the script's output: metadata["requires"] extended
\* by the lines of more_requires; CalledProcessError becomes PackagingError.
MetadataResult(exit_ok, requires, more_requires) ==
    IF exit_ok
    THEN [exc |-> "", requires |-> requires \o MoreRequires(more_requires)]
    ELSE [exc |-> "PackagingError", requires |-> <<>>]

---------------------------------------------------------------------------
(* Package._find_license.  A trove classifier is modelled by the sequence  *)
(* of its " :: "-separated parts.                                          *)

TROVE_COMMON_LICENSES ==
    [c \in {"GNU Affero General Public License v3",
            "GNU Affero General Public License v3 or later (AGPLv3+)",
            "Apache Software License",
            "Artistic License",
            "GNU Free Documentation License (FDL)",
            "GNU General Public License (GPL)",
            "GNU General Public License v2 (GPLv2)",
            "GNU General Public License v2 or later (GPLv2+)",
            "GNU General Public License v3 (GPLv3)",
            "GNU General Public License v3 or later (GPLv3+)",
            "GNU Library or Lesser General Public License (LGPL)",
            "GNU Lesser General Public License v2 (LGPLv2)",
            "GNU Lesser General Public License v2 or later (LGPLv2+)",
            "GNU Lesser General Public License v3 (LGPLv3)",
            "GNU Lesser General Public License v3 or later (LGPLv3+)",
            "Mozilla Public License 1.1 (MPL 1.1)",
            "Mozilla Public License 2.0 (MPL 2.0)",
            "Python Software Foundation License",
            "W3C License",
            "Zope Public License"} |->
        CASE c = "GNU Affero General Public License v3" -> "AGPL3"
          [] c = "GNU Affero General Public License v3 or later (AGPLv3+)"
                -> "AGPL3"
          [] c = "Apache Software License" -> "Apache"
          [] c = "Artistic License" -> "Artistic2.0"
          [] c = "GNU Free Documentation License (FDL)" -> "FDL1.3"
          [] c = "GNU General Public License (GPL)" -> "GPL"
          [] c = "GNU General Public License v2 (GPLv2)" -> "GPL2"
          [] c = "GNU General Public License v2 or later (GPLv2+)" -> "GPL2"
          [] c = "GNU General Public License v3 (GPLv3)" -> "GPL3"
          [] c = "GNU General Public License v3 or later (GPLv3+)" -> "GPL3"
          [] c = "GNU Library or Lesser General Public License (LGPL)"
                -> "LGPL"
          [] c = "GNU Lesser General Public License v2 (LGPLv2)" -> "LGPL2.1"
          [] c = "GNU Lesser General Public License v2 or later (LGPLv2+)"
                -> "LGPL2.1"
          [] c = "GNU Lesser General Public License v3 (LGPLv3)" -> "LGPL3"
          [] c = "GNU Lesser General Public License v3 or later (LGPLv3+)"
                -> "LGPL3"
          [] c = "Mozilla Public License 1.1 (MPL 1.1)" -> "MPL"
          [] c = "Mozilla Public License 2.0 (MPL 2.0)" -> "MPL"
          [] c = "Python Software Foundation License" -> "PSF"
          [] c = "W3C License" -> "W3C"
          [] c = "Zope Public License" -> "ZPL"]

TROVE_SPECIAL_LICENSES ==
    [c \in {"BSD License", "MIT License", "zlib/libpng License",
            "Python License (CNRI Python License)"} |->
        CASE c = "BSD License" -> "BSD"
          [] c = "MIT License" -> "MIT"
          [] c = "zlib/libpng License" -> "ZLIB"
          [] c = "Python License (CNRI Python License)" -> "Python"]

\* classifier.startswith("License :: ")
\*     and classifier != "License :: OSI Approved"
IsLicenseClass(classifier) ==
    /\ Len(classifier) >= 2
    /\ classifier[1] = "License"
    /\ classifier # <<"License", "OSI Approved">>

\* {**TROVE_COMMON_LICENSES, **TROVE_SPECIAL_LICENSES}[license_class]
LicenseOfClassCommonOnly(classifier) ==
    LET license_class == classifier[Len(classifier)]
    IN  IF license_class \in DOMAIN TROVE_COMMON_LICENSES
        THEN TROVE_COMMON_LICENSES[license_class]
        ELSE "custom:" \o license_class

\* One license class: the table's identifier, or custom:<last part>.
LicenseOfClass(classifier) ==
    LET license_class == classifier[Len(classifier)]
    IN  IF license_class \in DOMAIN TROVE_COMMON_LICENSES
        THEN TROVE_COMMON_LICENSES[license_class]
        ELSE IF license_class \in DOMAIN TROVE_SPECIAL_LICENSES
        THEN TROVE_SPECIAL_LICENSES[license_class]
        ELSE "custom:" \o license_class

\* The list `licenses`; info["license"] is "" for None.
FindLicenses(info) ==
    LET license_classes == SelectSeq(info.classifiers, IsLicenseClass)
    IN  IF license_classes # <<>>
        THEN [i \in 1..Len(license_classes) |->
                  LicenseOfClass(license_classes[i])]
        ELSE IF info.license \notin {"", "UNKNOWN"}
        THEN <<"custom:" \o info.license>>
        ELSE <<"custom:unknown">>

\* any(license not in TROVE_COMMON_LICENSES for license in licenses): the
\* test looks the identifier up among the table's keys, the classifier
\* texts.
LicenseFileWanted(licenses) ==
    \E i \in 1..Len(licenses) : licenses[i] \notin DOMAIN TROVE_COMMON_LICENSES

\* _get_srctree: next(url for url in self._urls if packagetype == "sdist")
\* raises StopIteration when no source archive was selected.
HasSdist(urls) == \E i \in 1..Len(urls) : urls[i].packagetype = "sdist"

\* _find_license for the selected artifacts `urls`: the exception it ends
\* with ("" when it returns), the list it returns and where the LICENSE
\* entry of self._files comes from ("none" when there is no entry).  The
\* hosting-service step is summarized by info.license_url: whether one of
\* the raw-content URLs answers; tree_license tells whether the unpacked
\* source tree holds a file named as in LICENSE_NAMES.  _get_srctree is
\* called inside a generator expression: its StopIteration ends the
\* generator silently, and the loop with it, on an interpreter without
\* PEP 479 and becomes a RuntimeError on one with it (generator_stop).
FindLicense(info, urls, tree_license, generator_stop) ==
    LET licenses == FindLicenses(info)
        Ret(exc, file) == [exc |-> exc, licenses |-> licenses, file |-> file]
    IN  IF ~LicenseFileWanted(licenses) THEN Ret("", "none")
        ELSE IF info.license_url THEN Ret("", "url")
        ELSE IF ~HasSdist(urls)
        THEN IF generator_stop THEN Ret("RuntimeError", "none")
             ELSE Ret("", "placeholder")
        ELSE IF tree_license THEN Ret("", "srctree")
        ELSE Ret("", "placeholder")

\* The exception alone: it does not depend on the content of the tree.
FindLicenseExc(info, urls, generator_stop) ==
    FindLicense(info, urls, FALSE, generator_stop).exc

---------------------------------------------------------------------------
(* _get_pypi_info for an index-hosted name, and the local-state queries of *)
(* PackageRef.__init__.                                                    *)

\* The releases that take part in max(): all of them with pre, the final
\* releases without.
Candidates(releases, pre) == {r \in releases : ~(~pre /\ r.prerelease)}

MaxVersion(releases, pre) ==
    LET vs == {r.v : r \in Candidates(releases, pre)}
    IN  CHOOSE v \in vs : \A u \in vs : u <= v

\* The exception an uncached _get_pypi_info(name, pre=pre) ends with:
\* HTTPError becomes PackagingError, max() of no version is a ValueError.
FetchExc(entry, pre) ==
    IF ~entry.found THEN "PackagingError"
    ELSE IF Candidates(entry.releases, pre) = {} THEN "ValueError"
    ELSE ""

\* The number of requests an uncached call sends: a second, pinned one
\* when the index's current version is not the newest release.
FetchRequests(entry, pre) ==
    IF FetchExc(entry, pre) # "" THEN 1
    ELSE IF MaxVersion(entry.releases, pre) # entry.version THEN 2
    ELSE 1

\* The lru_cache of _get_pypi_info.
InfoCacheNever(cache, key) == FALSE

InfoCacheHit(cache, key) == key \in cache

\* _find_installed and the pkgfile fallback, by the answer of the local
\* system: "absent" (no owner, nothing in the file index), "installed"
\* or "meta" (one owner; it provides one or two components),
\* "ambiguous" (pacman names two owners: the unpacking of `parts` raises).
ProbeExc(answer) == IF answer = "ambiguous" THEN "ValueError" ELSE ""

ProbeExists(answer) == answer \in {"installed", "meta"}

NextName(n) == IF n = "a" THEN "b" ELSE "a"

\* ref.arch_packaged: the components `pkgfile -l` lists for the package.
ArchPackaged(name, answer) ==
    CASE answer = "installed" -> <<name>>
      [] answer = "meta" -> <<name, NextName(name)>>
      [] OTHER -> <<>>
---------------------------------------------------------------------------
(* Artifacts of the index.                                                 *)

\* The package being resolved in the selection runs.
SelRef == [wheel_name |-> "pkg", version |-> "1.0"]

Wheel(id, parts) == [packagetype |-> "bdist_wheel", url |-> id, path |-> parts]

Other(packagetype, id) ==
    [packagetype |-> packagetype, url |-> id, path |-> <<"pkg", "1.0">>]

WheelAny == Wheel("any.whl", <<"pkg", "1.0", "py3", "none", "any">>)
WheelWin == Wheel("win.whl", <<"pkg", "1.0", "cp36", "cp36m", "win_amd64">>)
WheelLocal == Wheel("local.whl", <<"pkg", "1.0+local", "py3", "none", "any">>)
SdistTarGz == Other("sdist", "pkg.tar.gz")

ArtifactShapes ==
    { WheelAny,
      Wheel("x86_64.whl",
            <<"pkg", "1.0", "cp36", "cp36m", "manylinux1_x86_64">>),
      Wheel("i686.whl",
            <<"pkg", "1.0", "1", "cp36", "cp36m", "manylinux1_i686">>),
      Wheel("py2.whl", <<"pkg", "1.0", "py2", "none", "any">>),
      WheelWin,
      WheelLocal,
      Wheel("other.whl",
            <<"other", "1.0", "cp36", "cp36m", "manylinux1_x86_64">>),
      Wheel("bad.whl", <<"pkg", "1.0", "py3">>),
      SdistTarGz,
      Other("sdist", "pkg.zip"),
      Other("bdist_egg", "pkg.egg") }

---------------------------------------------------------------------------
(* The run of main: the world it queries and the recursive walk.           *)
(*                                                                         *)
(* The answers of the index, of the local system and of the trial          *)
(* installation are fixed for a run; each is drawn when the program first  *)
(* asks for it and kept from then on.                                      *)

\* The names requirement lists are made of; numpy joins them when a
\* trial installation succeeds at the retry, pip is a makedepends of all.
Names == {"a", "b"}
AllNames == Names \cup {"pip", "numpy"}

MIT == <<"License", "OSI Approved", "MIT License">>
GPL == <<"License", "OSI Approved", "GNU General Public License (GPL)">>

\* The index's document for a name.  `listed` tells whether the part
\* Package.__init__ reads (the artifacts, the classifiers) is drawn yet;
\* PackageRef.__init__ reads the releases and the version alone.
UnknownEntry ==
    [id |-> "unknown", found |-> FALSE, releases |-> {}, version |-> 0,
     listed |-> FALSE, files |-> "", urls |-> <<>>, classifiers |-> <<>>,
     license |-> "", license_url |-> FALSE]

Release(v, prerelease) == [v |-> v, prerelease |-> prerelease]

Listing(id, releases, version) ==
    [UnknownEntry EXCEPT !.id = id, !.found = TRUE, !.releases = releases,
                         !.version = version, !.license = "UNKNOWN"]

Files(files, urls, classifiers, license_url) ==
    [files |-> files, urls |-> urls, classifiers |-> classifiers,
     license_url |-> license_url]

WithFiles(entry, f) ==
    [entry EXCEPT !.listed = TRUE, !.files = f.files, !.urls = f.urls,
                  !.classifiers = f.classifiers,
                  !.license_url = f.license_url]

Entry(id, releases, version, urls, classifiers, license_url) ==
    WithFiles(Listing(id, releases, version),
              Files("given", urls, classifiers, license_url))

\* What the index may answer for a name: no such project, prereleases
\* only, or a final release.
IndexCatalog ==
    { [UnknownEntry EXCEPT !.id = "missing"],
      Listing("pre_only", {Release(1, TRUE)}, 1),
      Listing("released", {Release(1, FALSE)}, 1) }

\* The artifacts and classifiers of a project.  In artifact file names
\* "pkg" and "1.0" stand for the resolved package's wheel name and version.
FileCatalog ==
    { Files("sdist", <<SdistTarGz>>, <<MIT>>, FALSE),
      Files("unusable", <<WheelWin, WheelLocal>>, <<MIT>>, TRUE),
      Files("wheel_only", <<WheelAny>>, <<GPL>>, FALSE) }

PipEntry ==
    Entry("pip", {Release(1, FALSE)}, 1, <<WheelAny, SdistTarGz>>, <<MIT>>,
          TRUE)

ProbeAnswers == {"absent", "installed", "meta", "ambiguous"}

UnknownTrial ==
    [known |-> FALSE, first_ok |-> FALSE, retry_ok |-> FALSE,
     requires |-> <<>>]

Trial(first_ok, retry_ok, requires) ==
    [known |-> TRUE, first_ok |-> first_ok, retry_ok |-> retry_ok,
     requires |-> requires]

\* The requirement lists `pip show` may report: the names in a fixed order.
NameOrder == <<"a", "b">>

RequiresChoices ==
    {r \in SeqsUpTo(Names, Cardinality(Names)) :
         \A i, j \in 1..Len(r) :
             i < j => IndexOf(NameOrder, r[i]) < IndexOf(NameOrder, r[j])}

\* What the trial installation of a name may do: fail twice, succeed at
\* once with some requirements, or succeed at the retry.
TrialChoices ==
    {Trial(FALSE, FALSE, <<>>)}
    \cup {Trial(FALSE, TRUE, r) : r \in RequiresChoices}
    \cup {Trial(TRUE, FALSE, r) : r \in RequiresChoices}

\* numpy itself installs at once and requires nothing.
TrialsFor(name) ==
    IF trial[name].known THEN {trial[name]}
    ELSE IF name = "numpy" THEN {Trial(TRUE, FALSE, <<>>)}
    ELSE TrialChoices

\* The command lines: everything but --skipdeps, --pre and
\* --update-outdated is left at its default.
DefaultOptions ==
    [skipdeps |-> FALSE, force |-> FALSE, pre |-> FALSE, update |-> FALSE,
     generator_stop |-> TRUE]

\* ... and the interpreter the script runs on: with PEP 479 (Python 3.7
\* and later) or without.
OptionChoices ==
    { DefaultOptions,
      [DefaultOptions EXCEPT !.skipdeps = TRUE],
      [DefaultOptions EXCEPT !.pre = TRUE],
      [DefaultOptions EXCEPT !.update = TRUE],
      [DefaultOptions EXCEPT !.generator_stop = FALSE] }

DefaultPkgtypes == <<"anywheel", "sdist", "manylinuxwheel">>

\* The number of outdated packages --update-outdated finds.
MaxRoots == 2

---------------------------------------------------------------------------
(* Values of the walk.                                                     *)

PkgName(name, sub) == [name |-> name, sub |-> sub]

\* MetaPackage._get_target_path: base_path / ("meta:" + pkgname); the
\* plain base path is "".
MetaPath(name) == "meta:" \o name

NewPackage(name, sub) ==
    [name |-> name, sub |-> sub, urls |-> <<>>, reqs |-> <<>>,
     depends |-> <<>>, conflicts |-> <<>>]

\* ref.arch_version of an installed package, as (epoch, pkgver, pkgrel)
\* with each part a sequence of characters.
InstalledVersion == [epoch |-> <<>>, pkgver |-> <<"1">>, pkgrel |-> <<"1">>]

\* self._ref.arch_version._replace(pkgrel=pkgrel + ".99")
MetaVersion(arch_version) ==
    [arch_version EXCEPT !.pkgrel = @ \o <<".", "9", "9">>]

\* pkg._pkgbuild.replace("conflicts=()", "conflicts=('{0}<{1}' '{0}>{1}')")
\* with the MetaPackage's pkgname and version.
ConflictsUnpatched(pkgname, version) == <<>>

MetaConflicts(pkgname, version) ==
    << [pkgname |-> pkgname, op |-> "<", version |-> version],
       [pkgname |-> pkgname, op |-> ">", version |-> version] >>

\* What the MetaPackage properties put into its PKGBUILD header.
MetaManifest(f) ==
    [pkgname |-> PkgName(f.name, FALSE),
     version |-> MetaVersion(InstalledVersion),
     arch |-> <<"any">>,
     depends |-> [i \in 1..Len(f.pkgs) |->
                     PkgName(f.pkgs[i].name, f.pkgs[i].sub)],
     makedepends |-> <<>>,
     checkdepends |-> <<>>]

\* A call of create_package(name, options) in progress: options.is_dep,
\* options.base_path, the package object `pkg` being built (a Package, or
\* a MetaPackage with its sub-packages) and the position in the code.
NewFrame(name, is_dep, base) ==
    [name |-> name, is_dep |-> is_dep, base |-> base, pc |-> "dispatch",
     kind |-> "Package", todo |-> <<>>, cur |-> NewPackage(name, FALSE),
     pkgs |-> <<>>, pi |-> 1, di |-> 1]

CallKey(name, is_dep, base) == <<name, is_dep, base>>

FrameKey(f) == CallKey(f.name, f.is_dep, f.base)

Top == stack[Len(stack)]

SetTop(f) == [stack EXCEPT ![Len(stack)] = f]

Pop == SubSeq(stack, 1, Len(stack) - 1)

\* The caller's loop variable moves on when the callee returns.
AdvanceDep(f) == [f EXCEPT !.di = f.di + 1]

\* No function between main and the raise catches anything: the exception
\* leaves every create_package and write_deps_to in progress.
UnwindToCaller(frames) ==
    IF Len(frames) <= 1 THEN <<>>
    ELSE LET rest == SubSeq(frames, 1, Len(frames) - 1)
         IN  [rest EXCEPT ![Len(rest)] = AdvanceDep(rest[Len(rest)])]

Unwind(frames) == <<>>

\* if not ref.exists: create_package(...)
NeedsBuildAlways(ref) == TRUE

NeedsBuildNever(ref) == FALSE

NeedsBuild(ref) == ~ref.exists

\* if not self._urls: raise PackagingError("No URL available ...")
NoUrlNeverRaised(urls) == FALSE

NoUrlAvailable(urls) == urls = <<>>

\* build_cache[self.pkgname] = (fullname, options.is_dep): a new key goes
\* to the end, a known key keeps its place.
BuildCachePut(cache, pkgname, is_dep) ==
    IF \E i \in 1..Len(cache) : cache[i].pkgname = pkgname
    THEN [i \in 1..Len(cache) |->
             IF cache[i].pkgname = pkgname
             THEN [pkgname |-> pkgname, is_dep |-> is_dep]
             ELSE cache[i]]
    ELSE Append(cache, [pkgname |-> pkgname, is_dep |-> is_dep])

\* cwd.mkdir(parents=True, exist_ok=options.force)
MkdirFails(dirs, path, force) == path \in dirs /\ ~force

Bump(f, k) == [f EXCEPT ![k] = f[k] + 1]

---------------------------------------------------------------------------
(* PackageRef.__init__(name, pre=pre, is_subpackage=sub), given the        *)
(* answers `entry` of the index and `answer` of the local system.          *)

RefKey(name, pre) == <<name, pre>>

RefFetchExc(name, pre, entry) ==
    IF InfoCacheHit(info_cache, RefKey(name, pre)) THEN ""
    ELSE FetchExc(entry, pre)

RefExc(name, pre, sub, entry, answer) ==
    IF RefFetchExc(name, pre, entry) # "" THEN RefFetchExc(name, pre, entry)
    ELSE IF sub THEN ""
    ELSE ProbeExc(answer)

\* The answers the world can still give: the recorded one, or any.
EntriesFor(name) ==
    IF index[name].id = "unknown" THEN IndexCatalog ELSE {index[name]}

FilesFor(name) ==
    IF index[name].listed
    THEN {Files(index[name].files, index[name].urls,
                index[name].classifiers, index[name].license_url)}
    ELSE FileCatalog

\* The local system is asked only after the index has answered.  What an
\* installed package provides is looked at for the package of a top-level
\* call alone, so "meta" is drawn there (`top`) and nowhere else.
AnswersFor(name, pre, top, entry) ==
    IF RefFetchExc(name, pre, entry) # "" \/ probe[name] # "unknown"
    THEN {probe[name]}
    ELSE IF top THEN ProbeAnswers
    ELSE IF name = "numpy" THEN {"absent", "installed"}
    ELSE ProbeAnswers \ {"meta"}

\* The effect of the constructor on the caches, the world and the counts.
ConstructRefIn(ix, name, pre, sub, entry, answer) ==
    LET key     == RefKey(name, pre)
        hit     == InfoCacheHit(info_cache, key)
        fetched == RefFetchExc(name, pre, entry) = ""
    IN  /\ index' = [ix EXCEPT ![name] = entry]
        /\ probe' = [probe EXCEPT ![name] = answer]
        /\ info_cache' = IF fetched THEN info_cache \cup {key} ELSE info_cache
        /\ http' = IF hit THEN http
                   ELSE [http EXCEPT ![key] = @ + FetchRequests(entry, pre)]
        /\ probes' = IF fetched /\ ~sub THEN Bump(probes, key) ELSE probes
        /\ instances' = IF RefExc(name, pre, sub, entry, answer) = ""
                        THEN Bump(instances, <<name, pre, sub>>)
                        ELSE instances

ConstructRef(name, pre, sub, entry, answer) ==
    ConstructRefIn(index, name, pre, sub, entry, answer)

\* Package._find_arch_makedepends starts with PackageRef("pip").
ConstructPipRef(ix) ==
    ConstructRefIn(ix, "pip", FALSE, FALSE, PipEntry, "installed")

RefUnchanged == UNCHANGED <<index, probe, info_cache, http, probes, instances>>

\* The walk leaves the other parts of the model alone.
OthersIdle == UNCHANGED <<selVars, mdRest, fnVars>>

---------------------------------------------------------------------------
(* Exceptions.                                                             *)

\* An exception raised while `node` is being resolved.  main catches
\* PackagingError alone: with --update-outdated it logs it and goes on
\* with the next outdated package, otherwise it prints it and returns 1.
Raise(exc, node) ==
    /\ stack' = Unwind(stack)
    /\ abort' = [walk |-> walk, exc |-> exc, node |-> node, stack |-> stack,
                 written |-> written, build_cache |-> build_cache]
    /\ IF exc = "PackagingError"
       THEN /\ errors' = Append(errors, [walk |-> walk, node |-> node])
            /\ failed' = failed \cup {node}
       ELSE UNCHANGED <<errors, failed>>
    /\ IF Unwind(stack) # <<>>
       THEN UNCHANGED <<outcome, w_pc>>
       ELSE /\ outcome' = exc
            /\ w_pc' = IF exc = "PackagingError" /\ opts.update
                       THEN "run" ELSE "end"

NoRaise == UNCHANGED <<abort, errors, failed, outcome, w_pc>>

---------------------------------------------------------------------------
(* main and create_package.                                                *)

\* main calls create_package(name, Options(..., is_dep=False)) for the
\* name of the command line, or for each outdated package in turn.
CallRoot ==
    /\ w_pc = "run"
    /\ OthersIdle
    /\ stack = <<>>
    /\ roots # <<>>
    /\ roots' = Tail(roots)
    /\ walk' = walk + 1
    /\ IF CallKey(Head(roots), FALSE, "") \in cp_cache
       THEN stack' = stack /\ outcome' = "ok"
       ELSE /\ stack' = <<NewFrame(Head(roots), FALSE, "")>>
            /\ outcome' = "running"
    /\ UNCHANGED <<opts, cp_cache, build_cache, written, md_cache, trial,
                   abort, errors, failed, w_pc, resolved, built, dep_calls,
                   entered>>
    /\ RefUnchanged

\* After the last root main goes on to install what was built.
EndRun ==
    /\ w_pc = "run"
    /\ OthersIdle
    /\ stack = <<>>
    /\ roots = <<>>
    /\ w_pc' = "end"
    /\ UNCHANGED <<opts, roots, walk, stack, cp_cache, build_cache, written,
                   md_cache, trial, abort, errors, failed, outcome,
                   resolved, built, dep_calls, entered>>
    /\ RefUnchanged

\* dispatch_package_builder: PackageRef(name, pre=options.pre), then the
\* choice of the class by len(ref.arch_packaged).
Dispatch(entry, answer) ==
    /\ w_pc = "run"
    /\ OthersIdle
    /\ stack # <<>>
    /\ Top.pc = "dispatch"
    /\ entry \in EntriesFor(Top.name)
    /\ answer \in AnswersFor(Top.name, opts.pre, Len(stack) = 1, entry)
    /\ ConstructRef(Top.name, opts.pre, FALSE, entry, answer)
    /\ entered' = Bump(entered, Top.name)
    /\ LET exc == RefExc(Top.name, opts.pre, FALSE, entry, answer)
           arch_packaged == ArchPackaged(Top.name, answer)
       IN  IF exc # "" THEN Raise(exc, Top.name)
           ELSE /\ NoRaise
                /\ stack' = SetTop(
                       IF Len(arch_packaged) <= 1
                       THEN [Top EXCEPT !.kind = "Package",
                                        !.pc = "init_urls"]
                       ELSE [Top EXCEPT !.kind = "MetaPackage",
                                        !.todo = arch_packaged,
                                        !.pc = "meta_sub"])
    /\ UNCHANGED <<opts, roots, walk, cp_cache, build_cache, written,
                   md_cache, trial, resolved, built, dep_calls>>

\* MetaPackage.__init__: Package(PackageRef(name, is_subpackage=True), ...)
\* for the next name of ref.arch_packaged.
MetaSub(entry) ==
    /\ w_pc = "run"
    /\ OthersIdle
    /\ stack # <<>>
    /\ Top.pc = "meta_sub"
    /\ Top.todo # <<>>
    /\ entry \in EntriesFor(Head(Top.todo))
    /\ ConstructRef(Head(Top.todo), FALSE, TRUE, entry, probe[Head(Top.todo)])
    /\ LET exc == RefExc(Head(Top.todo), FALSE, TRUE, entry,
                         probe[Head(Top.todo)])
       IN  IF exc # "" THEN Raise(exc, Head(Top.todo))
           ELSE /\ NoRaise
                /\ stack' = SetTop([Top EXCEPT
                                       !.cur = NewPackage(Head(Top.todo), TRUE),
                                       !.todo = Tail(Top.todo),
                                       !.pc = "init_urls"])
    /\ UNCHANGED <<opts, roots, walk, cp_cache, build_cache, written,
                   md_cache, trial, resolved, built, dep_calls, entered>>

\* The rest of MetaPackage.__init__: the sub-packages are given their
\* conflicts; the MetaPackage is built and create_package goes on.
MetaDone ==
    /\ w_pc = "run"
    /\ OthersIdle
    /\ stack # <<>>
    /\ Top.pc = "meta_sub"
    /\ Top.todo = <<>>
    /\ stack' = SetTop([Top EXCEPT
           !.pkgs = [i \in 1..Len(Top.pkgs) |->
                        [Top.pkgs[i] EXCEPT !.conflicts =
                            MetaConflicts(PkgName(Top.name, FALSE),
                                          MetaVersion(InstalledVersion))]],
           !.pc = IF opts.skipdeps THEN "write" ELSE "deps"])
    /\ NoRaise
    /\ RefUnchanged
    /\ UNCHANGED <<opts, roots, walk, cp_cache, build_cache, written,
                   md_cache, trial, resolved, built, dep_calls, entered>>

\* Package.__init__ up to _find_arch_makedepends: the selection of the
\* artifacts and PackageRef("pip").
InitUrls(files) ==
    /\ w_pc = "run"
    /\ OthersIdle
    /\ stack # <<>>
    /\ Top.pc = "init_urls"
    /\ files \in FilesFor(Top.cur.name)
    /\ LET sel == FilterAndSortUrls(SelRef, files.urls, DefaultPkgtypes)
           ix  == [index EXCEPT ![Top.cur.name] = WithFiles(@, files)]
       IN  IF sel.exc # "" \/ NoUrlAvailable(sel.urls)
           THEN /\ Raise(IF sel.exc # "" THEN sel.exc ELSE "PackagingError",
                         Top.cur.name)
                /\ index' = ix
                /\ UNCHANGED <<probe, info_cache, http, probes, instances>>
           ELSE /\ NoRaise
                /\ ConstructPipRef(ix)
                /\ stack' = SetTop([Top EXCEPT !.cur.urls = sel.urls,
                                               !.pc = "init_metadata"])
    /\ UNCHANGED <<opts, roots, walk, cp_cache, build_cache, written,
                   md_cache, trial, resolved, built, dep_calls, entered>>

\* _get_metadata(ref.orig_name, False) through its lru_cache.
InitMetadata(t) ==
    /\ w_pc = "run"
    /\ OthersIdle
    /\ stack # <<>>
    /\ Top.pc = "init_metadata"
    /\ LET key == <<Top.cur.name, FALSE>>
       IN  IF key \in DOMAIN md_cache
           THEN /\ t = trial[Top.cur.name]
                /\ NoRaise
                /\ stack' = SetTop([Top EXCEPT
                                       !.cur.reqs = md_cache[key].requires,
                                       !.pc = "init_depends"])
                /\ UNCHANGED <<md_cache, trial>>
           ELSE /\ t \in TrialsFor(Top.cur.name)
                /\ trial' = [trial EXCEPT ![Top.cur.name] = t]
                /\ LET more == IF t.first_ok THEN <<>> ELSE EchoNumpy(<<>>)
                       ret  == MetadataResult(
                                   ShowSucceeds(t.first_ok \/ t.retry_ok, TRUE),
                                   t.requires, more)
                   IN  IF ret.exc # ""
                       THEN /\ Raise(ret.exc, Top.cur.name)
                            /\ UNCHANGED md_cache
                       ELSE /\ NoRaise
                            /\ md_cache' =
                                   [k \in DOMAIN md_cache \cup {key} |->
                                       IF k = key THEN ret ELSE md_cache[k]]
                            /\ stack' = SetTop([Top EXCEPT
                                                   !.cur.reqs = ret.requires,
                                                   !.pc = "init_depends"])
    /\ RefUnchanged
    /\ UNCHANGED <<opts, roots, walk, cp_cache, build_cache, written,
                   resolved, built, dep_calls, entered>>

\* _find_depends: PackageRef(name) for the next requirement.
InitDepends(entry, answer) ==
    /\ w_pc = "run"
    /\ OthersIdle
    /\ stack # <<>>
    /\ Top.pc = "init_depends"
    /\ Top.cur.reqs # <<>>
    /\ LET name == Head(Top.cur.reqs)
       IN  /\ entry \in EntriesFor(name)
           /\ answer \in AnswersFor(name, FALSE, FALSE, entry)
           /\ ConstructRef(name, FALSE, FALSE, entry, answer)
           /\ LET exc == RefExc(name, FALSE, FALSE, entry, answer)
              IN  IF exc # "" THEN Raise(exc, name)
                  ELSE /\ NoRaise
                       /\ stack' = SetTop([Top EXCEPT
                              !.cur.reqs = Tail(Top.cur.reqs),
                              !.cur.depends =
                                  Append(Top.cur.depends,
                                         [name |-> name,
                                          exists |-> ProbeExists(answer)])])
    /\ UNCHANGED <<opts, roots, walk, cp_cache, build_cache, written,
                   md_cache, trial, resolved, built, dep_calls, entered>>

\* _find_license and the rest of Package.__init__: the package object is
\* complete.  create_package goes on with write_deps_to, MetaPackage with
\* its next sub-package.
InitLicense ==
    /\ w_pc = "run"
    /\ OthersIdle
    /\ stack # <<>>
    /\ Top.pc = "init_depends"
    /\ Top.cur.reqs = <<>>
    /\ LET exc == FindLicenseExc(index[Top.cur.name], Top.cur.urls,
                                  opts.generator_stop)
           pkgname == PkgName(Top.cur.name, Top.cur.sub)
       IN  IF exc # ""
           THEN Raise(exc, Top.cur.name) /\ UNCHANGED resolved
           ELSE /\ NoRaise
                /\ resolved' = Bump(resolved, pkgname)
                /\ stack' = SetTop([Top EXCEPT
                       !.pkgs = Append(Top.pkgs, Top.cur),
                       !.pc = IF Top.kind = "MetaPackage" THEN "meta_sub"
                              ELSE IF opts.skipdeps THEN "write"
                              ELSE "deps"])
    /\ RefUnchanged
    /\ UNCHANGED <<opts, roots, walk, cp_cache, build_cache, written,
                   md_cache, trial, built, dep_calls, entered>>

\* The base path of the options a package object hands to create_package
\* and to the write_to of a sub-package: MetaPackage.write_deps_to
\* replaces base_path, Package.write_deps_to keeps it.
DepBase(f) == IF f.kind = "MetaPackage" THEN MetaPath(f.name) ELSE f.base

\* write_deps_to, next iteration `for ref in self._depends` with a
\* dependency that exists: nothing is done for it.
DepSkip ==
    /\ w_pc = "run"
    /\ OthersIdle
    /\ stack # <<>>
    /\ Top.pc = "deps"
    /\ Top.pi <= Len(Top.pkgs)
    /\ Top.di <= Len(Top.pkgs[Top.pi].depends)
    /\ ~NeedsBuild(Top.pkgs[Top.pi].depends[Top.di])
    /\ stack' = SetTop(AdvanceDep(Top))
    /\ NoRaise
    /\ RefUnchanged
    /\ UNCHANGED <<opts, roots, walk, cp_cache, build_cache, written,
                   md_cache, trial, resolved, built, dep_calls, entered>>

\* write_deps_to, next iteration with a dependency that does not exist:
\* create_package(ref.pypi_name, options._replace(is_dep=True)) through
\* its lru_cache.  The cache holds the calls that have returned; a call
\* with the arguments of a call still in progress runs that call's steps
\* again and never returns: the interpreter ends it with RecursionError.
DepCall ==
    /\ w_pc = "run"
    /\ OthersIdle
    /\ stack # <<>>
    /\ Top.pc = "deps"
    /\ Top.pi <= Len(Top.pkgs)
    /\ Top.di <= Len(Top.pkgs[Top.pi].depends)
    /\ NeedsBuild(Top.pkgs[Top.pi].depends[Top.di])
    /\ LET name == Top.pkgs[Top.pi].depends[Top.di].name
           key  == CallKey(name, TRUE, DepBase(Top))
       IN  /\ dep_calls' = dep_calls \cup {name}
           /\ IF key \in cp_cache
              THEN /\ stack' = SetTop(AdvanceDep(Top))
                   /\ NoRaise
              ELSE IF \E i \in 1..Len(stack) : FrameKey(stack[i]) = key
              THEN Raise("RecursionError", name)
              ELSE /\ stack' = Append(stack,
                                      NewFrame(name, TRUE, DepBase(Top)))
                   /\ NoRaise
    /\ RefUnchanged
    /\ UNCHANGED <<opts, roots, walk, cp_cache, build_cache, written,
                   md_cache, trial, resolved, built, entered>>

\* The loop over the dependencies of one package object has ended.  In
\* MetaPackage.write_deps_to the sub-package is written next, with
\* base_path the meta path and is_dep set.
PkgDepsDone ==
    /\ w_pc = "run"
    /\ OthersIdle
    /\ stack # <<>>
    /\ Top.pc = "deps"
    /\ Top.pi <= Len(Top.pkgs)
    /\ Top.di > Len(Top.pkgs[Top.pi].depends)
    /\ LET pkg     == Top.pkgs[Top.pi]
           pkgname == PkgName(pkg.name, pkg.sub)
           path    == <<MetaPath(Top.name), pkgname>>
           next    == [Top EXCEPT !.pi = Top.pi + 1, !.di = 1]
       IN  IF Top.kind = "Package"
           THEN /\ stack' = SetTop(next)
                /\ NoRaise
                /\ UNCHANGED <<written, build_cache, built>>
           ELSE IF MkdirFails(written, path, opts.force)
           THEN /\ Raise("FileExistsError", pkg.name)
                /\ UNCHANGED <<written, build_cache, built>>
           ELSE /\ stack' = SetTop(next)
                /\ NoRaise
                /\ written' = written \cup {path}
                /\ build_cache' = BuildCachePut(build_cache, pkgname, TRUE)
                /\ built' = Bump(built, pkgname)
    /\ RefUnchanged
    /\ UNCHANGED <<opts, roots, walk, cp_cache, md_cache, trial, resolved,
                   dep_calls, entered>>

\* write_deps_to has returned.
DepsDone ==
    /\ w_pc = "run"
    /\ OthersIdle
    /\ stack # <<>>
    /\ Top.pc = "deps"
    /\ Top.pi > Len(Top.pkgs)
    /\ stack' = SetTop([Top EXCEPT !.pc = "write"])
    /\ NoRaise
    /\ RefUnchanged
    /\ UNCHANGED <<opts, roots, walk, cp_cache, build_cache, written,
                   md_cache, trial, resolved, built, dep_calls, entered>>

\* pkg.write_to(options), the last statement of create_package; the call
\* returns and the lru_cache records it.
WriteTo ==
    /\ w_pc = "run"
    /\ OthersIdle
    /\ stack # <<>>
    /\ Top.pc = "write"
    /\ LET pkgname == PkgName(Top.name, FALSE)
           path    == <<DepBase(Top), pkgname>>
       IN  IF MkdirFails(written, path, opts.force)
           THEN /\ Raise("FileExistsError", Top.name)
                /\ UNCHANGED <<written, build_cache, built, cp_cache>>
           ELSE /\ written' = written \cup {path}
                /\ build_cache' =
                       BuildCachePut(build_cache, pkgname, Top.is_dep)
                /\ built' = Bump(built, pkgname)
                /\ cp_cache' = cp_cache \cup {FrameKey(Top)}
                /\ stack' = IF Len(stack) = 1 THEN <<>>
                            ELSE [Pop EXCEPT ![Len(stack) - 1] =
                                     AdvanceDep(Pop[Len(stack) - 1])]
                /\ outcome' = IF Len(stack) = 1 THEN "ok" ELSE outcome
                /\ UNCHANGED <<abort, errors, failed, w_pc>>
    /\ RefUnchanged
    /\ UNCHANGED <<opts, roots, walk, md_cache, trial, resolved, dep_calls,
                   entered>>

---------------------------------------------------------------------------
(* The state of each part of the model while another part runs.           *)

FnIdle ==
    /\ fn_pc = "idle"
    /\ fn_args = <<>>
    /\ fn_ret = <<>>

SelIdle ==
    /\ sel_pc = "idle"
    /\ sel_urls = <<>>
    /\ sel_pkgtypes = <<>>
    /\ sel_result = [exc |-> "", urls |-> <<>>]

MdIdle ==
    /\ md_pc = "off"
    /\ md_key = <<"pkg", FALSE>>
    /\ md_calls = 0
    /\ md_installs = 0
    /\ md_installed = FALSE
    /\ md_more = <<>>
    /\ md_base = <<>>
    /\ md_ret = NoMetadata
    /\ md_cache = <<>>
    /\ md_hist = <<>>

WalkIdle ==
    /\ w_pc = "off"
    /\ opts = DefaultOptions
    /\ roots = <<>>
    /\ walk = 0
    /\ stack = <<>>
    /\ index = <<>>
    /\ probe = <<>>
    /\ trial = <<>>
    /\ info_cache = {}
    /\ cp_cache = {}
    /\ build_cache = <<>>
    /\ written = {}
    /\ outcome = "none"
    /\ errors = <<>>
    /\ abort = <<>>
    /\ failed = {}
    /\ http = <<>>
    /\ probes = <<>>
    /\ instances = <<>>
    /\ resolved = <<>>
    /\ built = <<>>
    /\ dep_calls = {}
    /\ entered = <<>>

---------------------------------------------------------------------------
(* The specification of artifact selection: the inputs are drawn from      *)
(* bounded sets, one action applies _filter_and_sort_urls.                 *)

MaxUrls == 3

\* Preference orders: every duplicate-free order over the three buckets
\* (the default "anywheel:sdist:manylinuxwheel" among them) and one order
\* that names a bucket twice.
PkgTypeNames == {"anywheel", "sdist", "manylinuxwheel"}

PkgtypesChoices ==
    {p \in SeqsUpTo(PkgTypeNames, Cardinality(PkgTypeNames)) :
         \A i, j \in 1..Len(p) : i # j => p[i] # p[j]}
    \cup {<<"sdist", "anywheel", "sdist">>}

SelInit ==
    /\ sel_pc = "input"
    /\ sel_urls \in SeqsUpTo(ArtifactShapes, MaxUrls)
    /\ sel_pkgtypes \in PkgtypesChoices
    /\ sel_result = [exc |-> "", urls |-> <<>>]
    /\ MdIdle
    /\ WalkIdle
    /\ FnIdle

SelectArtifacts ==
    /\ sel_pc = "input"
    /\ sel_result' = FilterAndSortUrls(SelRef, sel_urls, sel_pkgtypes)
    /\ sel_pc' = "done"
    /\ UNCHANGED <<sel_urls, sel_pkgtypes>>
    /\ UNCHANGED <<mdVars, walkVars, fnVars>>

SelNext == SelectArtifacts

SelSpec == SelInit /\ [][SelNext]_vars

---------------------------------------------------------------------------
(* The specification of metadata extraction: calls of _get_metadata, the   *)
(* script of a call that misses the cache step by step.                    *)

MaxMdCalls == 2

MdNames == {"pkg", "ext"}
MdKeys == MdNames \X BOOLEAN
MdRequires == SeqsUpTo({"six", "numpy"}, 2)

MdInit ==
    /\ md_pc = "idle"
    /\ md_key = <<"pkg", FALSE>>
    /\ md_calls = 0
    /\ md_installs = 0
    /\ md_installed = FALSE
    /\ md_more = <<>>
    /\ md_base = <<>>
    /\ md_ret = NoMetadata
    /\ md_cache = [k \in {} |-> NoMetadata]
    /\ md_hist = [k \in {} |-> [installs |-> 0, base |-> <<>>]]
    /\ SelIdle
    /\ WalkIdle
    /\ FnIdle

\* A call whose arguments are in the lru_cache returns the cached value.
MdCallHit(key) ==
    /\ md_pc = "idle"
    /\ md_calls < MaxMdCalls
    /\ key \in DOMAIN md_cache
    /\ md_calls' = md_calls + 1
    /\ md_key' = key
    /\ md_ret' = md_cache[key]
    /\ md_installs' = 0
    /\ UNCHANGED <<md_pc, md_installed, md_more, md_base, md_cache, md_hist>>
    /\ UNCHANGED <<selVars, walkVars, fnVars>>

\* A call that misses the cache creates the venv and the two empty
\* temporary files and starts the script.
MdCallMiss(key) ==
    /\ md_pc = "idle"
    /\ md_calls < MaxMdCalls
    /\ key \notin DOMAIN md_cache
    /\ md_calls' = md_calls + 1
    /\ md_key' = key
    /\ md_installs' = 0
    /\ md_installed' = FALSE
    /\ md_more' = <<>>
    /\ md_base' = <<>>
    /\ md_pc' = "first"
    /\ UNCHANGED <<md_ret, md_cache, md_hist>>
    /\ UNCHANGED <<selVars, walkVars, fnVars>>

\* `if install_cmd >/dev/null; then ... else ...`
MdFirstInstall(ok) ==
    /\ md_pc = "first"
    /\ md_installs' = md_installs + 1
    /\ md_installed' = ok
    /\ md_pc' = IF ok THEN "show" ELSE "retry"
    /\ UNCHANGED <<md_key, md_calls, md_more, md_base, md_ret, md_cache,
                   md_hist>>
    /\ UNCHANGED <<selVars, walkVars, fnVars>>

\* `pip install numpy; echo numpy >>more_requires; install_cmd >log`
MdRetryInstall(ok) ==
    /\ md_pc = "retry"
    /\ md_more' = EchoNumpy(md_more)
    /\ md_installs' = md_installs + 1
    /\ md_installed' = ok
    /\ md_pc' = "show"
    /\ UNCHANGED <<md_key, md_calls, md_base, md_ret, md_cache, md_hist>>
    /\ UNCHANGED <<selVars, walkVars, fnVars>>

\* show_cmd ends the script; its status is the script's.  The value is
\* cached only when the call returns.
MdShow(show_ok, requires) ==
    /\ md_pc = "show"
    /\ LET exit_ok == ShowSucceeds(md_installed, show_ok)
           ret     == MetadataResult(exit_ok, requires, md_more)
       IN  /\ md_ret' = ret
           /\ md_base' = requires
           /\ IF exit_ok
              THEN /\ md_cache' = [k \in DOMAIN md_cache \cup {md_key} |->
                                     IF k = md_key THEN ret ELSE md_cache[k]]
                   /\ md_hist' = [k \in DOMAIN md_hist \cup {md_key} |->
                                     IF k = md_key
                                     THEN [installs |-> md_installs,
                                           base |-> requires]
                                     ELSE md_hist[k]]
              ELSE UNCHANGED <<md_cache, md_hist>>
    /\ md_pc' = "idle"
    /\ UNCHANGED <<md_key, md_calls, md_installs, md_installed, md_more>>
    /\ UNCHANGED <<selVars, walkVars, fnVars>>

MdNext ==
    \/ \E key \in MdKeys : MdCallHit(key)
    \/ \E key \in MdKeys : MdCallMiss(key)
    \/ \E ok \in BOOLEAN : MdFirstInstall(ok)
    \/ \E ok \in BOOLEAN : MdRetryInstall(ok)
    \/ \E show_ok \in BOOLEAN, requires \in MdRequires :
           MdShow(show_ok, requires)

MdSpec == MdInit /\ [][MdNext]_vars

---------------------------------------------------------------------------
(* The specification of a run of main.                                     *)

\* The index's current version of numpy is not its newest release.
NumpyEntry ==
    Entry("numpy", {Release(1, FALSE), Release(2, FALSE)}, 1,
          <<SdistTarGz, WheelAny>>, <<GPL>>, TRUE)

\* The names main is given: one on the command line, or the outdated
\* packages, which are installed ones (find_outdated has asked
\* _find_installed for each).
RootOrder == <<"a", "b", "numpy">>

RootChoices(update) ==
    IF update
    THEN {SubSeq(RootOrder, 1, k) :
              k \in {j \in 1..MaxRoots : j <= Len(RootOrder)}}
    ELSE {<<"a">>}

Init ==
    /\ w_pc = "run"
    /\ opts \in OptionChoices
    /\ roots \in RootChoices(opts.update)
    /\ walk = 0
    /\ stack = <<>>
    /\ index = [n \in AllNames |->
                   CASE n = "pip" -> PipEntry
                     [] n = "numpy" -> NumpyEntry
                     [] OTHER -> UnknownEntry]
    /\ \E installed \in [Range(roots) -> {"installed", "meta"}] :
           probe = [n \in AllNames |->
                       IF n = "pip" THEN "installed"
                       ELSE IF opts.update /\ n \in Range(roots)
                       THEN installed[n]
                       ELSE "unknown"]
    /\ trial = [n \in AllNames |->
                   IF n = "numpy" THEN Trial(TRUE, FALSE, <<>>)
                   ELSE UnknownTrial]
    /\ info_cache = {}
    /\ cp_cache = {}
    /\ build_cache = <<>>
    /\ written = {}
    /\ outcome = "none"
    /\ errors = <<>>
    /\ abort = [walk |-> 0, exc |-> "", node |-> "", stack |-> <<>>,
                written |-> {}, build_cache |-> <<>>]
    /\ failed = {}
    /\ http = [k \in AllNames \X BOOLEAN |-> 0]
    /\ probes = [k \in AllNames \X BOOLEAN |-> 0]
    /\ instances = [k \in AllNames \X BOOLEAN \X BOOLEAN |-> 0]
    /\ resolved = [p \in [name : AllNames, sub : BOOLEAN] |-> 0]
    /\ built = [p \in [name : AllNames, sub : BOOLEAN] |-> 0]
    /\ dep_calls = {}
    /\ entered = [n \in AllNames |-> 0]
    /\ SelIdle
    /\ FnIdle
    /\ md_pc = "off"
    /\ md_key = <<"pkg", FALSE>>
    /\ md_calls = 0
    /\ md_installs = 0
    /\ md_installed = FALSE
    /\ md_more = <<>>
    /\ md_base = <<>>
    /\ md_ret = NoMetadata
    /\ md_cache = [k \in {} |-> NoMetadata]
    /\ md_hist = <<>>

AllEntries ==
    IndexCatalog \cup {PipEntry, NumpyEntry}
    \cup {WithFiles(e, f) : e \in IndexCatalog, f \in FileCatalog}

AllFiles ==
    FileCatalog
    \cup {Files(e.files, e.urls, e.classifiers, e.license_url) :
              e \in {PipEntry, NumpyEntry}}

Next ==
    \/ CallRoot
    \/ EndRun
    \/ \E entry \in AllEntries, answer \in ProbeAnswers \cup {"unknown"} :
           Dispatch(entry, answer)
    \/ \E entry \in AllEntries : MetaSub(entry)
    \/ MetaDone
    \/ \E files \in AllFiles : InitUrls(files)
    \/ \E t \in TrialChoices : InitMetadata(t)
    \/ \E entry \in AllEntries, answer \in ProbeAnswers \cup {"unknown"} :
           InitDepends(entry, answer)
    \/ InitLicense
    \/ DepSkip
    \/ DepCall
    \/ PkgDepsDone
    \/ DepsDone
    \/ WriteTo

Spec == Init /\ [][Next]_vars

---------------------------------------------------------------------------
(* Single calls of functions of the module, each on arguments drawn from   *)
(* a bounded set.                                                          *)

\* The number of classifiers of a project.
MaxClassifiers == 2

\* The number of artifacts of a project.
MaxArtifacts == 3

\* The number of characters of a field of a version.
MaxField == 2

Apache == <<"License", "OSI Approved", "Apache Software License">>

ClassifierShapes ==
    { MIT, GPL, Apache,
      <<"License", "OSI Approved">>,
      <<"License", "Other/Proprietary License">>,
      <<"Programming Language", "Python">> }

\* info["license"]; "" stands for None.
LicenseTexts == {"", "UNKNOWN", "BSD-like"}

FindLicenseArgs ==
    [fn : {"_find_license"},
     classifiers : SeqsUpTo(ClassifierShapes, MaxClassifiers),
     license : LicenseTexts,
     license_url : BOOLEAN,
     urls : {<<SdistTarGz>>, <<WheelAny>>, <<WheelAny, SdistTarGz>>},
     tree_license : BOOLEAN,
     generator_stop : BOOLEAN]

\* The artifacts a project may have on the index.
ManifestShapes ==
    { WheelAny, SdistTarGz,
      Wheel("x86_64.whl",
            <<"pkg", "1.0", "cp36", "cp36m", "manylinux1_x86_64">>),
      Wheel("i686.whl", <<"pkg", "1.0", "cp36", "cp36m", "manylinux1_i686">>) }

ManifestPkgtypes ==
    { DefaultPkgtypes,
      <<"anywheel", "sdist">>,
      <<"manylinuxwheel", "sdist">>,
      <<"sdist", "anywheel">>,
      <<"sdist", "manylinuxwheel">> }

GuessMakedepends == {"cython", "swig"}

PackageInitArgs ==
    [fn : {"Package.__init__"},
     unfiltered_urls : SeqsUpTo(ManifestShapes, MaxArtifacts),
     pkgtypes : ManifestPkgtypes,
     tree : [i : BOOLEAN, pyx : BOOLEAN, c : BOOLEAN]]

\* _get_pypi_info(name) for a name that starts with "git+".  `metadata` is
\* what _get_metadata(name, True) does (raise PackagingError, or return the
\* installed name), `lookup` what the nested _get_pypi_info(metadata.name)
\* does (raise, or return the index's spelling of the name).
GitNamePlain(metadata, lookup) == metadata.name

GitName(metadata, lookup) ==
    IF lookup.exc = "PackagingError" THEN metadata.name ELSE lookup.name

GetPypiInfoGit(name, metadata, lookup) ==
    LET Raised(exc) == [exc |-> exc, info |-> <<>>, urls |-> <<>>,
                       pkgname_suffix |-> ""]
    IN  IF metadata.exc # "" THEN Raised(metadata.exc)
        ELSE IF lookup.exc \notin {"", "PackagingError"} THEN Raised(lookup.exc)
        ELSE [exc |-> "",
              info |-> [download_url |-> name.url, home_page |-> name.url,
                        package_url |-> name.url,
                        name |-> GitName(metadata, lookup)],
              urls |-> <<[packagetype |-> "sdist", path |-> name.path,
                          url |-> <<"git+">> \o name.url,
                          md5_digest |-> "SKIP"]>>,
              pkgname_suffix |-> "-git"]

GetPypiInfoGitArgs ==
    [fn : {"_get_pypi_info"},
     name : { [url |-> <<"https://host">> \o path, path |-> path] :
                  path \in {<<"/org", "/Repo.git">>, <<"/Repo">>} },
     metadata : { [exc |-> "PackagingError", name |-> ""],
                  [exc |-> "", name |-> "Repo"],
                  [exc |-> "", name |-> "my_pkg"] },
     lookup : { [exc |-> "PackagingError", name |-> ""],
                [exc |-> "ValueError", name |-> ""],
                [exc |-> "", name |-> "repo"],
                [exc |-> "", name |-> "my-pkg"] }]

\* ArchVersion values, with fields of any characters.
ArchVersionArgs ==
    LET Field == SeqsUpTo({"1", ":", "-"}, MaxField)
    IN  [fn : {"ArchVersion"},
         v : [epoch : Field, pkgver : Field, pkgrel : Field]]

FnArgs ==
    FindLicenseArgs \cup PackageInitArgs \cup GetPypiInfoGitArgs
        \cup ArchVersionArgs

FnInit ==
    /\ fn_pc = "call"
    /\ fn_args \in FnArgs
    /\ fn_ret = <<>>
    /\ SelIdle
    /\ MdIdle
    /\ WalkIdle

FnReturn(ret) ==
    /\ fn_ret' = ret
    /\ fn_pc' = "done"
    /\ UNCHANGED fn_args
    /\ UNCHANGED <<selVars, mdVars, walkVars>>

\* Package._find_license
FindLicenseCall ==
    /\ fn_pc = "call"
    /\ fn_args.fn = "_find_license"
    /\ FnReturn(FindLicense(fn_args, fn_args.urls, fn_args.tree_license,
                            fn_args.generator_stop))

\* Package.__init__: selection, architecture and source declarations.
PackageInitCall ==
    /\ fn_pc = "call"
    /\ fn_args.fn = "Package.__init__"
    /\ FnReturn(PackageInit(SelRef, fn_args.unfiltered_urls, fn_args.pkgtypes,
                            fn_args.tree, GuessMakedepends))

\* _get_pypi_info of a git+ name.
GetPypiInfoGitCall ==
    /\ fn_pc = "call"
    /\ fn_args.fn = "_get_pypi_info"
    /\ FnReturn(GetPypiInfoGit(fn_args.name, fn_args.metadata,
                               fn_args.lookup))

\* ArchVersion.parse(str(v)).
ArchVersionCall ==
    /\ fn_pc = "call"
    /\ fn_args.fn = "ArchVersion"
    /\ FnReturn(ArchVersionParse(ArchVersionStr(fn_args.v)))

FnNext ==
    \/ FindLicenseCall
    \/ PackageInitCall
    \/ GetPypiInfoGitCall
    \/ ArchVersionCall

FnSpec == FnInit /\ [][FnNext]_vars

---------------------------------------------------------------------------
(* Properties of artifact selection (checked under SelSpec).               *)

\* A binary artifact that passes the interpreter-tag filter and whose
\* platform tag maps to a bucket listed in the preference order.
PassesTagAndBucket(url, pkgtypes) ==
    /\ url.packagetype = "bdist_wheel"
    /\ WheelNameValid(url.path)
    /\ LET w == WheelInfoParse(url.path)
       IN  /\ w.python \in PY_TAGS
           /\ w.platform \in DOMAIN WheelBucket
           /\ WheelBucket[w.platform] \in Range(pkgtypes)

IdentityMismatch(ref, url) ==
    LET w == WheelInfoParse(url.path)
    IN  w.name # ref.wheel_name \/ w.version # ref.version

\* The bucket of an artifact, "" when it has none.
BucketOf(url) ==
    IF url.packagetype = "sdist" THEN "sdist"
    ELSE IF url.packagetype = "bdist_wheel" /\ WheelNameValid(url.path)
            /\ WheelInfoParse(url.path).platform \in DOMAIN WheelBucket
            /\ WheelInfoParse(url.path).python \in PY_TAGS
         THEN WheelBucket[WheelInfoParse(url.path).platform]
    ELSE ""

FirstPosition(pkgtypes, p) == \A j \in 1..(p - 1) : pkgtypes[j] # pkgtypes[p]

\* The artifacts of the buckets at positions 1..p of the preference
\* order, bucket after bucket, each bucket in the index's order.
\* Whether an artifact takes part in the selection; with `matching`, binary
\* artifacts that declare another package name or version do not.
Keep(u, matching) ==
    (matching /\ u.packagetype = "bdist_wheel") => ~IdentityMismatch(SelRef, u)

RECURSIVE ByBucket(_, _, _, _)
ByBucket(urls, pkgtypes, p, matching) ==
    IF p = 0 THEN <<>>
    ELSE ByBucket(urls, pkgtypes, p - 1, matching)
         \o (IF FirstPosition(pkgtypes, p)
             THEN SelectSeq(urls, LAMBDA u : /\ BucketOf(u) = pkgtypes[p]
                                             /\ Keep(u, matching))
             ELSE <<>>)

\* C8 as stated: a binary artifact that passes the interpreter-tag and
\* bucket filters but declares another package name or version is still
\* kept in the selected artifact list.
C8_MismatchKept ==
    (sel_pc = "done" /\ sel_result.exc = "") =>
        \A i \in 1..Len(sel_urls) :
            (PassesTagAndBucket(sel_urls[i], sel_pkgtypes)
             /\ IdentityMismatch(SelRef, sel_urls[i]))
                => sel_urls[i] \in Range(sel_result.urls)

\* C8 amended: a binary artifact that passes the interpreter-tag and
\* bucket filters but declares another package name or version is logged
\* and dropped: it is never in the selected artifact list.
C8_MismatchDropped ==
    sel_pc = "done" =>
        \A i \in 1..Len(sel_urls) :
            (PassesTagAndBucket(sel_urls[i], sel_pkgtypes)
             /\ IdentityMismatch(SelRef, sel_urls[i]))
                => sel_urls[i] \notin Range(sel_result.urls)

C8_Witness ==
    /\ sel_pc = "done"
    /\ sel_result.exc = ""
    /\ sel_result.urls # <<>>
    /\ \E i \in 1..Len(sel_urls) :
           /\ PassesTagAndBucket(sel_urls[i], sel_pkgtypes)
           /\ IdentityMismatch(SelRef, sel_urls[i])

\* C9 as stated: for every artifact list and preference order the result
\* is the sub-list of the artifacts whose bucket is listed, sorted by the
\* position of the bucket, ties in the index's order.
C9_SelectionIsBucketOrder ==
    sel_pc = "done" =>
        sel_result = [exc |-> "",
                      urls |-> ByBucket(sel_urls, sel_pkgtypes,
                                        Len(sel_pkgtypes), FALSE)]

\* C9 amended: for every artifact list whose wheel file names have 5 or 6
\* parts, the result is the sub-list of the artifacts whose bucket is
\* listed, without the binary artifacts that declare another package name
\* or version, sorted ascending by the first position of the bucket in the
\* preference order, ties in the index's order; a wheel file name of
\* another shape makes the selection raise ValueError.
C9_SelectionIsMatchingBucketOrder ==
    sel_pc = "done" =>
        IF \E i \in 1..Len(sel_urls) :
               /\ sel_urls[i].packagetype = "bdist_wheel"
               /\ Len(sel_urls[i].path) \notin {5, 6}
        THEN sel_result.exc = "ValueError"
        ELSE sel_result = [exc |-> "",
                           urls |-> ByBucket(sel_urls, sel_pkgtypes,
                                             Len(sel_pkgtypes), TRUE)]

\* Two artifacts of one bucket and one of an earlier bucket listed after
\* them: the result is reordered across buckets and keeps the tie's order.
C9_Witness ==
    /\ sel_pc = "done"
    /\ sel_result.exc = ""
    /\ Len(sel_result.urls) = 3
    /\ sel_result.urls # sel_urls
    /\ \E i, j \in 1..3 :
           /\ i < j
           /\ sel_result.urls[i] # sel_result.urls[j]
           /\ BucketOf(sel_result.urls[i]) = BucketOf(sel_result.urls[j])

---------------------------------------------------------------------------
(* Properties of metadata extraction (checked under MdSpec).               *)

\* C10: the trial installation runs at most twice; the retry happens only
\* after a failed first attempt; a call that returns after a successful
\* first attempt returns the reported requirements unchanged, one that
\* returns after the retry returns them with "numpy" appended once; when
\* the retry fails too the call raises PackagingError.
C10_RetryOnceWithNumpy ==
    /\ md_installs <= 2
    /\ md_pc = "retry" => (md_installs = 1 /\ ~md_installed)
    /\ (md_pc = "show" /\ md_installs = 1) => md_installed
    /\ (md_pc = "idle" /\ md_installs > 0) =>
          /\ (md_installs = 1 /\ md_ret.exc = "")
                => md_ret.requires = md_base
          /\ (md_installs = 2 /\ md_ret.exc = "")
                => md_ret.requires = md_base \o <<"numpy">>
          /\ ~md_installed
                => (md_installs = 2 /\ md_ret.exc = "PackagingError"
                    /\ md_key \notin DOMAIN md_cache)
          /\ md_ret.exc \in {"", "PackagingError"}
    /\ \A k \in DOMAIN md_cache :
          md_cache[k] = [exc |-> "",
                         requires |-> IF md_hist[k].installs = 1
                                      THEN md_hist[k].base
                                      ELSE md_hist[k].base \o <<"numpy">>]

C10_Witness ==
    /\ md_pc = "idle"
    /\ md_installs = 2
    /\ md_installed
    /\ md_ret = [exc |-> "", requires |-> <<"six", "numpy">>]
    /\ md_key \in DOMAIN md_cache

---------------------------------------------------------------------------
(* Properties of the run of main (checked under Spec).                     *)

\* The dependencies the loops of write_deps_to have not reached yet in a
\* call f of create_package that is inside write_deps_to: the rest of
\* `for ref in self._depends`, and for a MetaPackage the dependencies of
\* the later sub-packages.
RemainingSiblings(f) ==
    {f.pkgs[f.pi].depends[j] :
         j \in {k \in 1..Len(f.pkgs[f.pi].depends) : k > f.di}}
    \cup UNION {Range(f.pkgs[q].depends) :
                    q \in {k \in 1..Len(f.pkgs) : k > f.pi}}

\* The PackagingErrors main caught during the current top-level call.
ErrorsOfWalk == {i \in 1..Len(errors) : errors[i].walk = walk}

\* C1 as stated: after the resolution of a dependency has failed with a
\* PackagingError, every remaining dependency of the packages whose
\* write_deps_to was in progress has been resolved and built, or has
\* failed itself, when the walk is over.
C1_SiblingsStillBuilt ==
    (abort.exc = "PackagingError" /\ abort.walk = walk /\ stack = <<>>) =>
        \A i \in 1..(Len(abort.stack) - 1) :
            \A d \in RemainingSiblings(abort.stack[i]) :
                NeedsBuild(d) =>
                    \/ CallKey(d.name, TRUE, DepBase(abort.stack[i]))
                           \in cp_cache
                    \/ d.name \in failed

\* C1, amended: an exception raised while a dependency is resolved leaves
\* every create_package and write_deps_to in progress at once; until main
\* makes its next top-level call nothing more is resolved or written, and
\* main has caught at most one PackagingError for the call, that of the
\* node that failed first.
C1_FirstFailureAborts ==
    (abort.exc # "" /\ abort.walk = walk) =>
        /\ stack = <<>>
        /\ written = abort.written
        /\ build_cache = abort.build_cache
        /\ Cardinality(ErrorsOfWalk) <= 1
        /\ abort.exc = "PackagingError" =>
               \E i \in ErrorsOfWalk : errors[i].node = abort.node

\* A dependency failed with PackagingError inside its own create_package
\* while its caller still had another dependency to build, which was not
\* built before and is not built now.
C1_Witness ==
    /\ abort.exc = "PackagingError"
    /\ abort.walk = walk
    /\ stack = <<>>
    /\ Len(abort.stack) >= 2
    /\ LET f == abort.stack[Len(abort.stack) - 1]
       IN  \E d \in RemainingSiblings(f) :
               /\ NeedsBuild(d)
               /\ d.name # abort.node
               /\ CallKey(d.name, TRUE, DepBase(f)) \notin cp_cache

\* C2 as stated: the walk terminates on every requirement graph, and no
\* name is entered while a call of create_package for it is in progress.
C2_NoReentry ==
    /\ outcome # "RecursionError"
    /\ \A i, j \in 1..Len(stack) :
           i # j => stack[i].name # stack[j].name

\* C3 as stated: in one run each package name is resolved into a package
\* object at most once and written at most once.
C3_AtMostOnce ==
    \A p \in DOMAIN resolved : resolved[p] <= 1 /\ built[p] <= 1

\* C4: write_deps_to calls create_package only for dependencies the
\* local system does not have: no call made or in progress with is_dep
\* set, no memoized call and no build-cache entry of the dependency walk
\* is for a name that exists locally.
C4_ExistingDependencyNotBuilt ==
    /\ \A n \in dep_calls : ~ProbeExists(probe[n])
    /\ \A i \in 1..Len(stack) :
           stack[i].is_dep => ~ProbeExists(probe[stack[i].name])
    /\ \A k \in cp_cache : k[2] => ~ProbeExists(probe[k[1]])
    /\ \A i \in 1..Len(build_cache) :
           (build_cache[i].is_dep /\ ~build_cache[i].pkgname.sub)
               => ~ProbeExists(probe[build_cache[i].pkgname.name])

\* write_deps_to has passed over a dependency that exists and has had
\* another one, which does not, built.
C4_Witness ==
    \E i \in 1..Len(stack) :
        LET f == stack[i]
        IN  /\ f.pc = "deps"
            /\ f.pi <= Len(f.pkgs)
            /\ \E j, k \in 1..Len(f.pkgs[f.pi].depends) :
                   /\ j < f.di
                   /\ k < f.di
                   /\ f.pkgs[f.pi].depends[j].exists
                   /\ ProbeExists(probe[f.pkgs[f.pi].depends[j].name])
                   /\ f.pkgs[f.pi].depends[j].name \notin dep_calls
                   /\ ~f.pkgs[f.pi].depends[k].exists
                   /\ CallKey(f.pkgs[f.pi].depends[k].name, TRUE, DepBase(f))
                          \in cp_cache

\* The PackageRef objects made for (name, pre).
Instances(n, pre) == instances[<<n, pre, FALSE>>] + instances[<<n, pre, TRUE>>]

\* C5 as stated: for each name and pre-release flag the index is fetched
\* once, the local-state queries run once and one PackageRef instance
\* exists.
C5_ResolvedOnce ==
    \A n \in AllNames, pre \in BOOLEAN :
        /\ RefKey(n, pre) \in info_cache
               => http[RefKey(n, pre)] = FetchRequests(index[n], pre)
        /\ probes[RefKey(n, pre)] <= 1
        /\ Instances(n, pre) <= 1

\* C5, amended: only the fetch is memoized.  Once _get_pypi_info has
\* answered for (name, pre), no later construction sends a request; every
\* construction that is not for a sub-package runs the local-state queries
\* again, and every construction that returns makes a new PackageRef.
C5_FetchOnceProbeEveryTime ==
    \A n \in AllNames, pre \in BOOLEAN :
        LET k == RefKey(n, pre)
        IN  /\ k \in info_cache => http[k] = FetchRequests(index[n], pre)
            /\ k \notin info_cache => (probes[k] = 0 /\ Instances(n, pre) = 0)
            /\ probe[n] # "ambiguous"
                   => probes[k] = instances[<<n, pre, FALSE>>]
            /\ probe[n] = "ambiguous" => instances[<<n, pre, FALSE>>] = 0

\* A walked name was constructed twice: one request, two runs of the
\* local-state queries, two instances.
C5_Witness ==
    \E n \in Names :
        /\ RefKey(n, FALSE) \in info_cache
        /\ http[RefKey(n, FALSE)] = 1
        /\ probes[RefKey(n, FALSE)] = 2
        /\ instances[<<n, FALSE, FALSE>>] = 2

\* C6 as stated: a top-level call of create_package ends with the build
\* directories written or with a PackagingError, nothing else.
C6_OnlyPackagingErrorEscapes ==
    outcome \in {"none", "running", "ok", "PackagingError"}

\* The answers that make the resolution of a name raise PackagingError:
\* the index does not know it, no artifact survives the selection, or the
\* trial installation fails twice.
FailsToResolve(n) ==
    \/ index[n].id = "missing"
    \/ /\ index[n].listed
       /\ FilterAndSortUrls(SelRef, index[n].urls, DefaultPkgtypes).urls
              = <<>>
    \/ trial[n].known /\ ~trial[n].first_ok /\ ~trial[n].retry_ok

\* A build directory or a build-cache entry exists for the name.
Emitted(n) ==
    \/ \E path \in written : path[2].name = n
    \/ \E i \in 1..Len(build_cache) : build_cache[i].pkgname.name = n

\* C7: a name whose resolution raised PackagingError is one the index
\* does not know, one without a selectable artifact or one whose trial
\* installation fails; for such a name no build directory is written and
\* no build-cache entry is made, in this or any other call of the run.
C7_NothingEmittedForFailedNode ==
    \A n \in AllNames :
        /\ n \in failed => FailsToResolve(n)
        /\ FailsToResolve(n) => ~Emitted(n)

\* A resolution failed with PackagingError in a run that has written
\* another package; the failed one has no directory and no cache entry.
C7_Witness ==
    /\ abort.exc = "PackagingError"
    /\ abort.node \in failed
    /\ FailsToResolve(abort.node)
    /\ written # {}
    /\ ~Emitted(abort.node)

---------------------------------------------------------------------------
(* Properties of single calls (checked under FnSpec).                      *)

FindLicenseDone == fn_pc = "done" /\ fn_args.fn = "_find_license"

\* The classifiers _find_license looks at, in the order of the document.
LicenseClassifiers(classifiers) ==
    SelectSeq(classifiers,
              LAMBDA c : c[1] = "License" /\ c # <<"License", "OSI Approved">>)

\* The text of a classifier: its segments joined by " :: ".
RECURSIVE ClassifierText(_, _)
ClassifierText(c, n) ==
    IF n = 1 THEN c[1] ELSE ClassifierText(c, n - 1) \o " :: " \o c[n]

\* The identifier of one classifier: the table's, or custom: followed by
\* the whole classifier (verbatim) or by its last segment.
IdentifierOf(c, verbatim) ==
    LET last == c[Len(c)]
    IN  IF last \in DOMAIN TROVE_COMMON_LICENSES
        THEN TROVE_COMMON_LICENSES[last]
        ELSE IF last \in DOMAIN TROVE_SPECIAL_LICENSES
        THEN TROVE_SPECIAL_LICENSES[last]
        ELSE IF verbatim THEN "custom:" \o ClassifierText(c, Len(c))
        ELSE "custom:" \o last

\* The list of identifiers for a project's classifiers and license text.
IdentifiersOf(classifiers, license, verbatim) ==
    LET cs == LicenseClassifiers(classifiers)
    IN  IF cs # <<>>
        THEN [i \in 1..Len(cs) |-> IdentifierOf(cs[i], verbatim)]
        ELSE IF license \notin {"", "UNKNOWN"}
        THEN <<"custom:" \o license>>
        ELSE <<"custom:unknown">>

\* C11 as stated: a classifier of the table maps to its identifier, one
\* absent from the table to custom:<raw classifier text>; classifiers come
\* before the free-text field; with neither the result is custom:unknown.
C11_ClassifierVerbatim ==
    (FindLicenseDone /\ fn_ret.exc = "") =>
        fn_ret.licenses =
            IdentifiersOf(fn_args.classifiers, fn_args.license, TRUE)

\* C11, amended: a license classifier ("License :: ..." other than
\* "License :: OSI Approved") whose last segment is in one of the two
\* tables maps to the table's identifier, any other one to custom:<last
\* segment>; the free-text field is used only when there is no license
\* classifier, as custom:<text>; when it is None or "UNKNOWN" too the
\* result is the single identifier custom:unknown.
C11_ClassifierLastSegment ==
    (FindLicenseDone /\ fn_ret.exc = "") =>
        fn_ret.licenses =
            IdentifiersOf(fn_args.classifiers, fn_args.license, FALSE)

\* A table entry and a classifier absent from the tables, in one project
\* that also has a free-text license.
C11_Witness ==
    /\ FindLicenseDone
    /\ fn_args.classifiers =
           <<Apache, <<"License", "Other/Proprietary License">>>>
    /\ fn_args.license = "BSD-like"
    /\ fn_ret.licenses = <<"Apache", "custom:Other/Proprietary License">>

\* The identifiers of the licenses the base `licenses` package provides.
CommonIdentifiers ==
    {TROVE_COMMON_LICENSES[k] : k \in DOMAIN TROVE_COMMON_LICENSES}

\* C12 as stated: when every resolved identifier is a common one nothing
\* is fetched, inspected or embedded; otherwise the discovery chain runs.
C12_DiscoveryOnlyForUncommon ==
    FindLicenseDone =>
        IF \A i \in 1..Len(fn_ret.licenses) :
               fn_ret.licenses[i] \in CommonIdentifiers
        THEN fn_ret.exc = "" /\ fn_ret.file = "none"
        ELSE fn_ret.exc # "" \/ fn_ret.file # "none"

\* C13 as stated: the chain is hosting-service URL, then source tree,
\* then placeholder; the first success ends it; _find_license returns
\* with one LICENSE file whatever the selected artifacts are.
C13_ChainNeverAborts ==
    FindLicenseDone =>
        /\ fn_ret.exc = ""
        /\ fn_ret.file =
               IF fn_args.license_url THEN "url"
               ELSE IF HasSdist(fn_args.urls) /\ fn_args.tree_license
               THEN "srctree"
               ELSE "placeholder"

---------------------------------------------------------------------------
(* Properties of the package objects of a run (checked under Spec).        *)

\* The calls of create_package whose package object is complete.
BuiltFrames == {i \in 1..Len(stack) : stack[i].pc \in {"deps", "write"}}

\* C14: the package object of a call is a MetaPackage exactly when the
\* local system reports more than one component for the name.  A
\* MetaPackage has architecture any and no build or check dependencies;
\* its depends are one Package per reported component, in order, each
\* named python--<component> and each in conflict with every version of
\* the MetaPackage's name below and above the installed version with
\* ".99" appended to its release.  A Package is in conflict with nothing.
C14_MetaPackageOfComponents ==
    \A i \in BuiltFrames :
        LET f == stack[i]
            components == ArchPackaged(f.name, probe[f.name])
        IN  IF Len(components) > 1
            THEN /\ f.kind = "MetaPackage"
                 /\ MetaManifest(f).arch = <<"any">>
                 /\ MetaManifest(f).makedepends = <<>>
                 /\ MetaManifest(f).checkdepends = <<>>
                 /\ MetaManifest(f).depends =
                        [j \in 1..Len(components) |->
                            [name |-> components[j], sub |-> TRUE]]
                 /\ \A j \in 1..Len(f.pkgs) :
                        f.pkgs[j].conflicts =
                            << [pkgname |-> [name |-> f.name, sub |-> FALSE],
                                op |-> "<",
                                version |-> [epoch |-> <<>>,
                                             pkgver |-> <<"1">>,
                                             pkgrel |-> <<"1", ".", "9", "9">>]],
                               [pkgname |-> [name |-> f.name, sub |-> FALSE],
                                op |-> ">",
                                version |-> [epoch |-> <<>>,
                                             pkgver |-> <<"1">>,
                                             pkgrel |-> <<"1", ".", "9", "9">>]] >>
            ELSE /\ f.kind = "Package"
                 /\ Len(f.pkgs) = 1
                 /\ f.pkgs[1].sub = FALSE
                 /\ f.pkgs[1].conflicts = <<>>

\* A MetaPackage of two components has been built and is being written.
C14_Witness ==
    \E i \in BuiltFrames :
        /\ stack[i].kind = "MetaPackage"
        /\ stack[i].pc = "write"
        /\ Len(stack[i].pkgs) = 2
        /\ probe[stack[i].name] = "meta"

\* The names a written package requires, as _get_metadata returned them.
RequiresOf(pkgname) ==
    IF <<pkgname.name, FALSE>> \in DOMAIN md_cache
    THEN Range(md_cache[<<pkgname.name, FALSE>>].requires)
    ELSE {}

InBuildCache(pkgname) ==
    \E i \in 1..Len(build_cache) : build_cache[i].pkgname = pkgname

\* C19 as stated, for the runs that build no MetaPackage: after the run,
\* every package of the build cache that another package of the build
\* cache requires stands before that package.
C19_DependenciesFirst ==
    (w_pc = "end" /\ \A k \in 1..Len(build_cache) :
                         ~build_cache[k].pkgname.sub) =>
        \A i, j \in 1..Len(build_cache) :
            ( /\ i # j
              /\ build_cache[j].pkgname.name
                     \in RequiresOf(build_cache[i].pkgname) )
                => j < i

\* C19: without --skipdeps, when write_to of a package starts, every
\* dependency of it that did not exist on the local system when the
\* package was resolved has been written and is in the build cache, and so
\* is every sub-package of a MetaPackage.  (A dependency that exists is not built for the package;
\* as a root of its own it may be written later in the same run.)
C19_MissingDependenciesFirst ==
    [][ (built' # built /\ ~opts.skipdeps) =>
            LET f == Top
                writing == IF f.pc = "write" THEN Range(f.pkgs)
                                             ELSE {f.pkgs[f.pi]}
            IN  /\ \A pkg \in writing :
                       \A d \in 1..Len(pkg.depends) :
                           ~pkg.depends[d].exists =>
                               InBuildCache(PkgName(pkg.depends[d].name,
                                                    FALSE))
                /\ (f.pc = "write" /\ f.kind = "MetaPackage") =>
                       \A pkg \in Range(f.pkgs) :
                           InBuildCache(PkgName(pkg.name, TRUE)) ]_vars

\* A dependency that did not exist was written before the root that
\* requires it.
C19_Witness ==
    /\ Len(build_cache) >= 2
    /\ build_cache[1].is_dep
    /\ ~build_cache[2].is_dep
    /\ build_cache[1].pkgname.name \in RequiresOf(build_cache[2].pkgname)
    /\ build_cache[1].pkgname # build_cache[2].pkgname

---------------------------------------------------------------------------
(* Properties of the architecture and the sources (checked under FnSpec).  *)

PackageInitDone ==
    fn_pc = "done" /\ fn_args.fn = "Package.__init__" /\ fn_ret.exc = ""

\* The target architecture of a selected wheel.
TargetArch(url) ==
    LET tag == url.path[Len(url.path)]
    IN  CASE tag = "any" -> "any"
          [] tag = "manylinux1_i686" -> "i686"
          [] tag = "manylinux1_x86_64" -> "x86_64"

SelectedWheels == SelectSeq(fn_ret.urls, IsWheel)

C18_AnyWheelKeepsArchAny ==
    ( /\ PackageInitDone
      /\ ~IsWheel(fn_ret.urls[1])
      /\ WheelAny \in Range(fn_args.unfiltered_urls)
      /\ ~fn_args.tree.i
      /\ ~fn_args.tree.pyx )
        => fn_ret.arch = <<"any">>

\* C20 as stated: the architecture is [any] or a non-empty list of
\* i686 and x86_64, and the sources are not both unqualified and
\* qualified by an architecture.
C20_ArchAnyOrConcrete ==
    PackageInitDone =>
        /\ \/ fn_ret.arch = <<"any">>
           \/ /\ fn_ret.arch # <<>>
              /\ Range(fn_ret.arch) \subseteq {"i686", "x86_64"}
        /\ ~ /\ \E i \in 1..Len(fn_ret.sources) : fn_ret.sources[i].arch = ""
             /\ \E i \in 1..Len(fn_ret.sources) : fn_ret.sources[i].arch # ""

---------------------------------------------------------------------------
(* Properties of _get_pypi_info for git+ names (checked under FnSpec).     *)

\* C16 as stated: the call never fails; when metadata extraction fails
\* the name is the last path segment of the origin URL, and the result
\* has a single sdist artifact with digest SKIP.
C16_MetadataFailureFallsBack ==
    (fn_pc = "done" /\ fn_args.fn = "_get_pypi_info"
         /\ fn_args.lookup.exc # "ValueError") =>
        /\ fn_ret.exc = ""
        /\ fn_args.metadata.exc # "" =>
               fn_ret.info.name
                   = fn_args.name.path[Len(fn_args.name.path)]
        /\ Len(fn_ret.urls) = 1
        /\ fn_ret.urls[1].packagetype = "sdist"
        /\ fn_ret.urls[1].md5_digest = "SKIP"

\* C16: with a git+ name, a failure of metadata extraction makes
\* _get_pypi_info raise PackagingError.  When extraction succeeds the name
\* is the index's spelling of the installed name if the index knows it
\* and the installed name itself if that lookup raises PackagingError; the
\* result then has the suffix -git and a single sdist artifact with
\* digest SKIP, whose path is the whole path of the origin URL.
C16_GitInfoNeedsMetadata ==
    (fn_pc = "done" /\ fn_args.fn = "_get_pypi_info") =>
        /\ fn_args.metadata.exc # "" => fn_ret.exc = "PackagingError"
        /\ (fn_args.metadata.exc = "" /\ fn_args.lookup.exc = "ValueError")
               => fn_ret.exc = "ValueError"
        /\ (fn_args.metadata.exc = "" /\ fn_args.lookup.exc # "ValueError") =>
               /\ fn_ret.exc = ""
               /\ fn_ret.info.name =
                      IF fn_args.lookup.exc = "" THEN fn_args.lookup.name
                      ELSE fn_args.metadata.name
               /\ fn_ret.pkgname_suffix = "-git"
               /\ Len(fn_ret.urls) = 1
               /\ fn_ret.urls[1].packagetype = "sdist"
               /\ fn_ret.urls[1].md5_digest = "SKIP"
               /\ fn_ret.urls[1].path = fn_args.name.path

C16_Witness ==
    /\ fn_pc = "done"
    /\ fn_args.fn = "_get_pypi_info"
    /\ fn_args.metadata.exc = "PackagingError"
    /\ fn_args.lookup.exc = ""
    /\ fn_ret.exc = "PackagingError"
    /\ fn_ret.urls = <<>>

---------------------------------------------------------------------------
(* Properties of ArchVersion (checked under FnSpec).                       *)

\* A valid triple: the epoch is empty or a number, pkgver and pkgrel are
\* not empty, and no field holds ":" or "-".
ValidVersion(v) ==
    /\ \A f \in {v.epoch, v.pkgver, v.pkgrel} :
           \A i \in 1..Len(f) : f[i] \notin {":", "-"}
    /\ v.pkgver # <<>>
    /\ v.pkgrel # <<>>

\* C17: for every valid triple v, ArchVersion.parse(str(v)) is v, also
\* with an empty epoch, whose string has no epoch segment.
C17_RoundTrip ==
    (fn_pc = "done" /\ fn_args.fn = "ArchVersion"
         /\ ValidVersion(fn_args.v)) =>
        /\ fn_ret.exc = ""
        /\ fn_ret.version = fn_args.v
        /\ fn_args.v.epoch = <<>> =>
               ":" \notin Range(ArchVersionStr(fn_args.v))

C17_Witness ==
    /\ fn_pc = "done"
    /\ fn_args.fn = "ArchVersion"
    /\ ValidVersion(fn_args.v)
    /\ fn_args.v.epoch = <<>>
    /\ fn_args.v.pkgver = <<"1", "1">>
    /\ ArchVersionStr(fn_args.v) = <<"1", "1", "-", "1">>
    /\ fn_ret.version = fn_args.v

===========================================================================
